---------------------------- MODULE Spec2Model ----------------------------
(***************************************************************************)
(* A model of func.rs: an algebra of single-variable f64 functions.  Every *)
(* node kind of the catalogue is a struct with a constructor `new` and     *)
(* (for all kinds but FuncAcos) an implementation of FuncEval::eval.       *)
(*                                                                         *)
(* f64 values are modelled as triples:                                     *)
(*   <<"fin", n, d>>   the dyadic rational n/d (d a power of two, lowest   *)
(*                     terms), which an f64 holds exactly; <<"fin",0,1>>   *)
(*                     is +0.0                                             *)
(*   <<"nzero", 0, 1>> -0.0                                                *)
(*   <<"inf", s, 0>>   +infinity (s = 1) or -infinity (s = -1)             *)
(*   <<"nan", 0, 0>>   not-a-number                                        *)
(*   <<"sym", op, args>>  the f64 that the IEEE/libm operation `op`        *)
(*                     returns on `args` when that result is not tracked   *)
(*                     exactly.  Equal terms denote equal f64 values       *)
(*                     (distinct terms may denote the same value).         *)
(***************************************************************************)
EXTENDS Integers, Sequences, FiniteSets, TLC

(***************************************************************************)
(* Bounds of the model.                                                    *)
(***************************************************************************)
\* magnitudes up to which numerators and denominators are tracked exactly
MaxMag == 1024
\* variables of the client program that own a root node
MaxSlots == 2
\* nodes alive at a time
MaxNodes == 3
\* scalar parameters handed to the constructors: -1 .. MaxParam, -0.0 and NaN
MaxParam == 2
\* arguments handed to eval: -1, 1/2 and the squares 0, 1, .. MaxInput^2
MaxInput == 2
\* threads evaluating concurrently
NumThreads == 2

----------------------------------------------------------------------------
(***************************************************************************)
(* f64 values                                                              *)
(***************************************************************************)
NaN == <<"nan", 0, 0>>
PInf == <<"inf", 1, 0>>
NInf == <<"inf", -1, 0>>
Zero == <<"fin", 0, 1>>
NZero == <<"nzero", 0, 1>>
One == <<"fin", 1, 1>>

Sym(op, args) == <<"sym", op, args>>

\* std::f64::consts::E
E == Sym("E", <<>>)

IsNaN(v) == v[1] = "nan"
IsInf(v) == v[1] = "inf"
IsSym(v) == v[1] = "sym"
IsZero(v) == v = Zero \/ v = NZero
\* a finite value held exactly (including both zeros)
IsNum(v) == v[1] = "fin" \/ v[1] = "nzero"

Abs(n) == IF n < 0 THEN -n ELSE n

RECURSIVE Reduce(_, _)
Reduce(n, d) ==
  IF d > 1 /\ n % 2 = 0 THEN Reduce(n \div 2, d \div 2) ELSE <<"fin", n, d>>

\* the f64 n/d, d a power of two
Fin(n, d) == IF n = 0 THEN Zero ELSE Reduce(n, d)

FInt(n) == Fin(n, 1)

\* sign bit set
IsNeg(v) == v = NZero \/ v = NInf \/ (v[1] = "fin" /\ v[2] < 0)

\* numerators and denominators small enough for exact integer arithmetic
Small(v) == IsNum(v) /\ Abs(v[2]) <= MaxMag /\ v[3] <= MaxMag

RECURSIVE IsPow2(_)
IsPow2(n) == n = 1 \/ (n > 1 /\ n % 2 = 0 /\ IsPow2(n \div 2))

RECURSIVE IPow(_, _)
IPow(b, k) == IF k = 0 THEN 1 ELSE IF b <= 1 THEN b ELSE b * IPow(b, k - 1)

\* whether b^k stays within MaxMag (b >= 0, k >= 0)
RECURSIVE PowFits(_, _, _)
PowFits(b, k, acc) ==
  IF k = 0 \/ b <= 1 THEN acc <= MaxMag
  ELSE acc <= MaxMag /\ PowFits(b, k - 1, acc * b)

\* the integer r >= 0 with r^k = n, or -1 when there is none (n >= 0, k >= 1)
IRoot(n, k) ==
  LET c == {r \in 0..n : PowFits(r, k, 1) /\ IPow(r, k) = n}
  IN IF c = {} THEN -1 ELSE CHOOSE r \in c : TRUE

\* a value with the sign of s (s a boolean: negative)
SignedZero(s) == IF s THEN NZero ELSE Zero
SignedInf(s) == IF s THEN NInf ELSE PInf

\* IEEE ==
FEq(a, b) ==
  IF IsNaN(a) \/ IsNaN(b) THEN FALSE
  ELSE IF IsZero(a) /\ IsZero(b) THEN TRUE
  ELSE a = b

\* IEEE != (true when either operand is NaN)
FNe(a, b) == ~FEq(a, b)

\* |v| > 1 for an exactly held v
AbsGtOne(v) == Abs(v[2]) > v[3]

\* an exactly held integer, and its parity
IsInteger(v) == IsNum(v) /\ v[3] = 1
IsOddInt(v) == IsInteger(v) /\ v[2] % 2 # 0

\* a term known to denote a finite, nonzero number: E, or the logarithm of an
\* exactly held positive number other than 1
IsRegular(v) ==
  v = E \/ (IsSym(v) /\ v[2] = "ln" /\ IsNum(v[3][1]))
\* the sign bit of such a term: ln v < 0 exactly when v < 1
RegNeg(v) == v # E /\ v[3][1][2] < v[3][1][3]

----------------------------------------------------------------------------
(***************************************************************************)
(* IEEE-754 operations as the standard library computes them.  An operand  *)
(* that is a term may denote any f64 (0.0, 1.0, an infinity and NaN        *)
(* included) unless IsRegular says otherwise, so a rule that needs to know *)
(* the operand's value is applied to exactly held operands only.           *)
(***************************************************************************)
\* a + b
Add(a, b) ==
  IF IsNaN(a) \/ IsNaN(b) THEN NaN
  ELSE IF IsSym(a) \/ IsSym(b) THEN Sym("add", <<a, b>>)
  ELSE IF IsInf(a) /\ IsInf(b) THEN (IF a = b THEN a ELSE NaN)
  ELSE IF IsInf(a) THEN a
  ELSE IF IsInf(b) THEN b
  ELSE IF a = NZero /\ b = NZero THEN NZero
  ELSE IF ~(Small(a) /\ Small(b)) THEN Sym("add", <<a, b>>)
  ELSE LET d == IF a[3] >= b[3] THEN a[3] ELSE b[3]
           n == a[2] * (d \div a[3]) + b[2] * (d \div b[3])
       IN Fin(n, d)

\* a * b
Mul(a, b) ==
  IF IsNaN(a) \/ IsNaN(b) THEN NaN
  ELSE IF IsRegular(a) /\ (IsZero(b) \/ IsInf(b))
       THEN (IF IsZero(b) THEN SignedZero(RegNeg(a) # IsNeg(b))
             ELSE SignedInf(RegNeg(a) # IsNeg(b)))
  ELSE IF IsRegular(b) /\ (IsZero(a) \/ IsInf(a))
       THEN (IF IsZero(a) THEN SignedZero(IsNeg(a) # RegNeg(b))
             ELSE SignedInf(IsNeg(a) # RegNeg(b)))
  ELSE IF IsSym(a) \/ IsSym(b) THEN Sym("mul", <<a, b>>)
  ELSE IF (IsInf(a) /\ IsZero(b)) \/ (IsZero(a) /\ IsInf(b)) THEN NaN
  ELSE IF IsInf(a) \/ IsInf(b) THEN SignedInf(IsNeg(a) # IsNeg(b))
  ELSE IF IsZero(a) \/ IsZero(b) THEN SignedZero(IsNeg(a) # IsNeg(b))
  ELSE IF ~(Small(a) /\ Small(b)) THEN Sym("mul", <<a, b>>)
  ELSE Fin(a[2] * b[2], a[3] * b[3])

\* a / b
Div(a, b) ==
  IF IsNaN(a) \/ IsNaN(b) THEN NaN
  ELSE IF IsRegular(a) /\ a = b THEN One
  ELSE IF IsRegular(a) /\ (IsZero(b) \/ IsInf(b))
       THEN (IF IsZero(b) THEN SignedInf(RegNeg(a) # IsNeg(b))
             ELSE SignedZero(RegNeg(a) # IsNeg(b)))
  ELSE IF IsRegular(b) /\ (IsZero(a) \/ IsInf(a))
       THEN (IF IsZero(a) THEN SignedZero(IsNeg(a) # RegNeg(b))
             ELSE SignedInf(IsNeg(a) # RegNeg(b)))
  ELSE IF IsSym(a) \/ IsSym(b) THEN Sym("div", <<a, b>>)
  ELSE IF (IsInf(a) /\ IsInf(b)) \/ (IsZero(a) /\ IsZero(b)) THEN NaN
  ELSE IF IsInf(a) \/ IsZero(b) THEN SignedInf(IsNeg(a) # IsNeg(b))
  ELSE IF IsInf(b) \/ IsZero(a) THEN SignedZero(IsNeg(a) # IsNeg(b))
  ELSE IF ~(Small(a) /\ Small(b)) THEN Sym("div", <<a, b>>)
  ELSE IF IsPow2(Abs(b[2]))
       THEN LET s == IF b[2] < 0 THEN -1 ELSE 1
            IN Fin(s * a[2] * b[3], a[3] * Abs(b[2]))
       ELSE Sym("div", <<a, b>>)

\* the positive base a raised to the exact, nonzero, finite exponent b
PowPos(a, b) ==
  IF ~(Small(a) /\ Small(b)) THEN Sym("powf", <<a, b>>)
  ELSE IF IsInteger(b) /\ b[2] > 0 /\ PowFits(a[2], b[2], 1) /\ PowFits(a[3], b[2], 1)
       THEN Fin(IPow(a[2], b[2]), IPow(a[3], b[2]))
  ELSE IF IsInteger(b) /\ b[2] < 0 /\ IsPow2(a[2])
          /\ PowFits(a[2], -b[2], 1) /\ PowFits(a[3], -b[2], 1)
       THEN Fin(IPow(a[3], -b[2]), IPow(a[2], -b[2]))
  ELSE IF b = Fin(1, 2) /\ IRoot(a[2], 2) >= 0 /\ IRoot(a[3], 2) >= 0
       THEN Fin(IRoot(a[2], 2), IRoot(a[3], 2))
  ELSE Sym("powf", <<a, b>>)

\* a.powf(b)
\* pow(x, +-0) = 1 and pow(1, y) = 1 even for a NaN x or y, so a NaN operand
\* gives NaN only when the other operand is known not to be 0 or 1
Powf(a, b) ==
  IF IsZero(b) \/ a = One THEN One
  ELSE IF IsSym(b) /\ ~IsRegular(b) THEN Sym("powf", <<a, b>>)
  ELSE IF IsSym(a) /\ a # E THEN
       (IF b = One THEN a ELSE Sym("powf", <<a, b>>))
  ELSE IF IsNaN(a) \/ IsNaN(b) THEN NaN
  ELSE IF IsSym(b) THEN Sym("powf", <<a, b>>)
  ELSE IF IsSym(a) THEN
       (IF b = One THEN a ELSE Sym("powf", <<a, b>>))
  ELSE IF IsInf(b) THEN
       (IF a = FInt(-1) THEN One
        ELSE IF IsInf(a) \/ (IsNum(a) /\ AbsGtOne(a))
             THEN (IF b = PInf THEN PInf ELSE Zero)
        ELSE (IF b = PInf THEN Zero ELSE PInf))
  ELSE IF IsInf(a) THEN
       (IF IsNeg(b) THEN SignedZero(a = NInf /\ IsOddInt(b))
        ELSE SignedInf(a = NInf /\ IsOddInt(b)))
  ELSE IF IsZero(a) THEN
       (IF IsNeg(b) THEN SignedInf(a = NZero /\ IsOddInt(b))
        ELSE SignedZero(a = NZero /\ IsOddInt(b)))
  ELSE IF IsNeg(a) THEN
       (IF ~IsInteger(b) THEN NaN
        ELSE LET r == PowPos(Fin(-a[2], a[3]), b)
             IN IF IsSym(r) THEN Sym("powf", <<a, b>>)
                ELSE IF IsOddInt(b) THEN Fin(-r[2], r[3]) ELSE r)
  ELSE PowPos(a, b)

\* v.ln()
Ln(v) ==
  IF IsNaN(v) THEN NaN
  ELSE IF v = E THEN One
  ELSE IF IsSym(v) THEN Sym("ln", <<v>>)
  ELSE IF IsZero(v) THEN NInf
  ELSE IF IsNeg(v) THEN NaN
  ELSE IF v = PInf THEN PInf
  ELSE IF v = One THEN Zero
  ELSE Sym("ln", <<v>>)

\* v.log(b), which the standard library computes as v.ln() / b.ln()
Log(v, b) == Div(Ln(v), Ln(b))

\* v.sin()
Sin(v) ==
  IF IsNaN(v) \/ IsInf(v) THEN NaN
  ELSE IF IsZero(v) THEN v
  ELSE Sym("sin", <<v>>)

\* v.cos()
Cos(v) ==
  IF IsNaN(v) \/ IsInf(v) THEN NaN
  ELSE IF IsZero(v) THEN One
  ELSE Sym("cos", <<v>>)

\* v.tan()
Tan(v) ==
  IF IsNaN(v) \/ IsInf(v) THEN NaN
  ELSE IF IsZero(v) THEN v
  ELSE Sym("tan", <<v>>)

\* v.asin()
Asin(v) ==
  IF IsNaN(v) \/ IsInf(v) THEN NaN
  ELSE IF IsZero(v) THEN v
  ELSE IF IsNum(v) /\ AbsGtOne(v) THEN NaN
  ELSE Sym("asin", <<v>>)

\* v.acos()
Acos(v) ==
  IF IsNaN(v) \/ IsInf(v) THEN NaN
  ELSE IF v = One THEN Zero
  ELSE IF IsNum(v) /\ AbsGtOne(v) THEN NaN
  ELSE Sym("acos", <<v>>)

\* v.atan()
Atan(v) ==
  IF IsNaN(v) THEN NaN
  ELSE IF IsZero(v) THEN v
  ELSE Sym("atan", <<v>>)

\* v.sqrt()
Sqrt(v) ==
  IF IsNaN(v) THEN NaN
  ELSE IF IsSym(v) THEN Sym("sqrt", <<v>>)
  ELSE IF IsZero(v) THEN v
  ELSE IF IsNeg(v) THEN NaN
  ELSE IF v = PInf THEN PInf
  ELSE IF Small(v) /\ IRoot(v[2], 2) >= 0 /\ IRoot(v[3], 2) >= 0
       THEN Fin(IRoot(v[2], 2), IRoot(v[3], 2))
  ELSE Sym("sqrt", <<v>>)

\* v.cbrt(): libm's cbrt is not correctly rounded (cbrt(27.0) need not be 3.0),
\* so only the IEEE special cases are tracked exactly
Cbrt(v) ==
  IF IsNaN(v) THEN NaN
  ELSE IF IsZero(v) \/ IsInf(v) \/ v = One \/ v = FInt(-1) THEN v
  ELSE Sym("cbrt", <<v>>)

----------------------------------------------------------------------------
(***************************************************************************)
(* Nodes.  A node is a record: its struct (kind), the f_type field of the  *)
(* two structs that have one, its scalar field (c, n, a or b) and the      *)
(* child nodes it owns (f, or f and g).                                    *)
(***************************************************************************)
NoParam == <<"none", 0, 0>>

Node(kind, ft, p, kids) == [kind |-> kind, f_type |-> ft, p |-> p, kids |-> kids]

\* a variable that owns nothing (not yet bound, or moved from)
Empty == Node("empty", "none", NoParam, <<>>)

LeafKinds == {"Func", "FuncConst", "FuncIdem"}
BinaryKinds == {"FuncSum", "FuncProd"}
TrigKinds == {"FuncSin", "FuncCos", "FuncTan", "FuncAsin", "FuncAcos", "FuncAtan"}
\* one child and a scalar
ScalarKinds == {"FuncPow", "FuncExpA", "FuncLogA", "FuncNthrt"}
\* one child and nothing else
PlainKinds == {"FuncExpE", "FuncLogE", "FuncSqrt", "FuncQbrt"} \cup TrigKinds
UnaryKinds == ScalarKinds \cup PlainKinds

\* Func::new()
NewFunc == Node("Func", "Abstract", NoParam, <<>>)
\* FuncConst::new(c)
NewConst(c) == Node("FuncConst", "none", c, <<>>)
\* FuncIdem::new()
NewIdem == Node("FuncIdem", "Idem", NoParam, <<>>)
\* FuncSum::new(f, g)
NewSum(f, g) == Node("FuncSum", "none", NoParam, <<f, g>>)
\* FuncProd::new(f, g)
NewProd(f, g) == Node("FuncProd", "none", NoParam, <<f, g>>)
\* FuncPow::new(f, n)
NewPow(f, n) == Node("FuncPow", "none", n, <<f>>)
\* FuncExpA::new(a, f)
NewExpA(a, f) == Node("FuncExpA", "none", a, <<f>>)
\* FuncExpE::new(f)
NewExpE(f) == Node("FuncExpE", "none", NoParam, <<f>>)
\* FuncLogA::new(b, f)
NewLogA(b, f) == Node("FuncLogA", "none", b, <<f>>)
\* FuncLogE::new(f)
NewLogE(f) == Node("FuncLogE", "none", NoParam, <<f>>)
\* FuncSin::new(f)
NewSin(f) == Node("FuncSin", "none", NoParam, <<f>>)
\* FuncCos::new(f)
NewCos(f) == Node("FuncCos", "none", NoParam, <<f>>)
\* FuncTan::new(f)
NewTan(f) == Node("FuncTan", "none", NoParam, <<f>>)
\* FuncAsin::new(f)
NewAsin(f) == Node("FuncAsin", "none", NoParam, <<f>>)
\* FuncAcos::new(f)
NewAcos(f) == Node("FuncAcos", "none", NoParam, <<f>>)
\* FuncAtan::new(f)
NewAtan(f) == Node("FuncAtan", "none", NoParam, <<f>>)
\* FuncSqrt::new(f)
NewSqrt(f) == Node("FuncSqrt", "none", NoParam, <<f>>)
\* FuncQbrt::new(f)
NewQbrt(f) == Node("FuncQbrt", "none", NoParam, <<f>>)
\* FuncNthrt::new(n, f), once its assertion has passed
NewNthrt(n, f) == Node("FuncNthrt", "none", n, <<f>>)

\* a degree check that lets zero through
NthrtAssertNeOne(n) == FNe(n, One)

\* assert!(n != 0f64) in FuncNthrt::new
NthrtAssert(n) == FNe(n, Zero)

\* constructors that also check the base of a logarithm
CtorAssertLogBase(kind, p) ==
  IF kind = "FuncNthrt" THEN NthrtAssert(p)
  ELSE IF kind = "FuncLogA" THEN IsNum(p) /\ ~IsNeg(p) /\ ~IsZero(p) /\ p # One
  ELSE TRUE

\* the run-time check a constructor makes on its scalar: only FuncNthrt has one
CtorAssert(kind, p) == IF kind = "FuncNthrt" THEN NthrtAssert(p) ELSE TRUE

\* the node a leaf constructor returns
NewLeaf(kind, p) ==
  CASE kind = "Func" -> NewFunc
    [] kind = "FuncConst" -> NewConst(p)
    [] kind = "FuncIdem" -> NewIdem

\* the node a one-child constructor returns
NewUnary(kind, p, f) ==
  CASE kind = "FuncPow" -> NewPow(f, p)
    [] kind = "FuncExpA" -> NewExpA(p, f)
    [] kind = "FuncExpE" -> NewExpE(f)
    [] kind = "FuncLogA" -> NewLogA(p, f)
    [] kind = "FuncLogE" -> NewLogE(f)
    [] kind = "FuncSin" -> NewSin(f)
    [] kind = "FuncCos" -> NewCos(f)
    [] kind = "FuncTan" -> NewTan(f)
    [] kind = "FuncAsin" -> NewAsin(f)
    [] kind = "FuncAcos" -> NewAcos(f)
    [] kind = "FuncAtan" -> NewAtan(f)
    [] kind = "FuncSqrt" -> NewSqrt(f)
    [] kind = "FuncQbrt" -> NewQbrt(f)
    [] kind = "FuncNthrt" -> NewNthrt(p, f)

\* the node a two-children constructor returns
NewBinary(kind, f, g) ==
  CASE kind = "FuncSum" -> NewSum(f, g)
    [] kind = "FuncProd" -> NewProd(f, g)

(***************************************************************************)
(* Static typing.  The type of a node is its struct instantiated at the    *)
(* type T of its children; FuncSum<T> and FuncProd<T> declare f: T and     *)
(* g: T, and every `new` of a composite requires T: FuncEval.              *)
(***************************************************************************)
RECURSIVE TypeOf(_)
TypeOf(n) == IF n.kids = <<>> THEN <<n.kind>> ELSE <<n.kind, TypeOf(n.kids[1])>>

\* the structs with an `impl FuncEval for`: all but FuncAcos
ImplFuncEval(n) == n.kind # "FuncAcos" /\ n.kind # "empty"

\* whether the call new(f) of a one-child struct type-checks
UnaryTypeChecks(f) == ImplFuncEval(f)

\* whether the call new(f, g) of a two-children struct type-checks
BinaryTypeChecks(f, g) == ImplFuncEval(f) /\ ImplFuncEval(g) /\ TypeOf(f) = TypeOf(g)

RECURSIVE Size(_)
Size(n) ==
  IF n.kind = "empty" THEN 0
  ELSE IF Len(n.kids) = 0 THEN 1
  ELSE IF Len(n.kids) = 1 THEN 1 + Size(n.kids[1])
  ELSE 1 + Size(n.kids[1]) + Size(n.kids[2])

\* the node reached from n by the child indices of path
RECURSIVE NodeAt(_, _)
NodeAt(n, path) == IF path = <<>> THEN n ELSE NodeAt(n.kids[Head(path)], Tail(path))

----------------------------------------------------------------------------
(***************************************************************************)
(* FuncEval::eval.  Each impl is given the results r of the child          *)
(* evaluations it makes, in the order it makes them.                       *)
(***************************************************************************)
\* impl FuncEval for Func
EvalFunc(self, x, r) == Zero
\* impl FuncEval for FuncConst
EvalConst(self, x, r) == self.p
\* impl FuncEval for FuncIdem
EvalIdem(self, x, r) == x
\* a sum that evaluates f twice
EvalSumLeftTwice(self, x, r) == Add(r[1], r[1])

\* impl FuncEval for FuncSum: self.f.eval(x) + self.g.eval(x)
EvalSum(self, x, r) == Add(r[1], r[2])
\* impl FuncEval for FuncProd: self.f.eval(x) * self.g.eval(x)
EvalProd(self, x, r) == Mul(r[1], r[2])
\* impl FuncEval for FuncPow: self.f.eval(x).powf(self.n)
EvalPow(self, x, r) == Powf(r[1], self.p)
\* impl FuncEval for FuncExpA: self.a.powf(self.f.eval(x))
EvalExpA(self, x, r) == Powf(self.p, r[1])
\* impl FuncEval for FuncExpE: std::f64::consts::E.powf(x)
EvalExpE(self, x, r) == Powf(E, x)
\* impl FuncEval for FuncLogA: self.f.eval(x).log(self.b)
EvalLogA(self, x, r) == Log(r[1], self.p)
\* impl FuncEval for FuncLogE: self.f.eval(x).ln()
EvalLogE(self, x, r) == Ln(r[1])
\* impl FuncEval for FuncSin
EvalSin(self, x, r) == Sin(r[1])
\* impl FuncEval for FuncCos
EvalCos(self, x, r) == Cos(r[1])
\* impl FuncEval for FuncTan
EvalTan(self, x, r) == Tan(r[1])
\* impl FuncEval for FuncAsin
EvalAsin(self, x, r) == Asin(r[1])
\* impl FuncEval for FuncAtan
EvalAtan(self, x, r) == Atan(r[1])
\* a square root that refuses a negative argument instead of returning NaN
EvalSqrtChecked(self, x, r) == IF IsNeg(r[1]) THEN <<"panic", 0, 0>> ELSE Sqrt(r[1])

\* impl FuncEval for FuncSqrt
EvalSqrt(self, x, r) == Sqrt(r[1])
\* impl FuncEval for FuncQbrt
EvalQbrt(self, x, r) == Cbrt(r[1])
\* a root that raises to n instead of 1/n
EvalNthrtNoRecip(self, x, r) == Powf(r[1], self.p)

\* impl FuncEval for FuncNthrt: self.f.eval(x).powf(1f64 / self.n)
EvalNthrt(self, x, r) == Powf(r[1], Div(One, self.p))

\* how many child evaluations the impl of self's struct makes: FuncExpE's makes
\* none, the leaves have no child
NumCalls(self) ==
  IF self.kind \in LeafKinds \cup {"FuncExpE"} THEN 0 ELSE Len(self.kids)

\* dispatch on the struct of self
Transform(self, x, r) ==
  CASE self.kind = "Func" -> EvalFunc(self, x, r)
    [] self.kind = "FuncConst" -> EvalConst(self, x, r)
    [] self.kind = "FuncIdem" -> EvalIdem(self, x, r)
    [] self.kind = "FuncSum" -> EvalSum(self, x, r)
    [] self.kind = "FuncProd" -> EvalProd(self, x, r)
    [] self.kind = "FuncPow" -> EvalPow(self, x, r)
    [] self.kind = "FuncExpA" -> EvalExpA(self, x, r)
    [] self.kind = "FuncExpE" -> EvalExpE(self, x, r)
    [] self.kind = "FuncLogA" -> EvalLogA(self, x, r)
    [] self.kind = "FuncLogE" -> EvalLogE(self, x, r)
    [] self.kind = "FuncSin" -> EvalSin(self, x, r)
    [] self.kind = "FuncCos" -> EvalCos(self, x, r)
    [] self.kind = "FuncTan" -> EvalTan(self, x, r)
    [] self.kind = "FuncAsin" -> EvalAsin(self, x, r)
    [] self.kind = "FuncAtan" -> EvalAtan(self, x, r)
    [] self.kind = "FuncSqrt" -> EvalSqrt(self, x, r)
    [] self.kind = "FuncQbrt" -> EvalQbrt(self, x, r)
    [] self.kind = "FuncNthrt" -> EvalNthrt(self, x, r)

\* self.eval(x), run to completion by one caller
RECURSIVE Eval(_, _)
Eval(self, x) ==
  Transform(self, x, [i \in 1..NumCalls(self) |-> Eval(self.kids[i], x)])

----------------------------------------------------------------------------
(***************************************************************************)
(* The client program: variables that own root nodes, calls of the         *)
(* constructors and of eval, and threads that share a root by reference.   *)
(***************************************************************************)
VARIABLES
  pool,    \* pool[s]: the root node variable s owns, or Empty
  lastOp,  \* the last constructor or eval call of the main thread
  thr      \* thr[t]: the eval call thread t is in

vars == <<pool, lastOp, thr>>

Slots == 1..MaxSlots
Threads == 1..NumThreads

\* scalars handed to the constructors
ParamValues == {NZero, NaN} \cup {FInt(n) : n \in -1..MaxParam}
\* arguments handed to eval
Inputs == {FInt(-1), Fin(1, 2)} \cup {FInt(n * n) : n \in 0..MaxInput}
\* the scalars and arguments of the multi-threaded runs
ConcParams == {FInt(2), FInt(-1)}
ConcInputs == {FInt(4), FInt(-1)}

NoOp ==
  [op |-> "none", kind |-> "none", p |-> NoParam, args |-> <<>>, self |-> Empty,
   x |-> NoParam, r |-> NoParam, outcome |-> "none"]

NewOp(kind, p, args, self, outcome) ==
  [op |-> "new", kind |-> kind, p |-> p, args |-> args, self |-> self,
   x |-> NoParam, r |-> NoParam, outcome |-> outcome]

EvalOp(self, x, r, outcome) ==
  [op |-> "eval", kind |-> self.kind, p |-> self.p, args |-> <<>>, self |-> self,
   x |-> x, r |-> r, outcome |-> outcome]

Idle ==
  [status |-> "idle", slot |-> 0, x |-> NoParam, self |-> Empty, stack |-> <<>>,
   r |-> NoParam, steps |-> 0]

Init ==
  /\ pool = [s \in Slots |-> Empty]
  /\ lastOp = NoOp
  /\ thr = [t \in Threads |-> Idle]

RECURSIVE SumSizes(_)
SumSizes(s) == IF s = 0 THEN 0 ELSE Size(pool[s]) + SumSizes(s - 1)
\* nodes alive
Nodes == SumSizes(MaxSlots)

\* a failed assertion has ended the process
Halted == lastOp.outcome = "panic"

\* a thread holds a shared reference to the root of variable s (from its call
\* until it is joined), so the root cannot be moved
Borrowed(s) == \E t \in Threads : thr[t].status # "idle" /\ thr[t].slot = s

\* the scalars a constructor of this struct takes
ParamsOf(kind, P) == IF kind \in ScalarKinds \cup {"FuncConst"} THEN P ELSE {NoParam}

Min(i, j) == IF i < j THEN i ELSE j
Max(i, j) == IF i < j THEN j ELSE i

\* let v = Func::new() | FuncConst::new(c) | FuncIdem::new()
ConstructLeaf(P) ==
  /\ ~Halted
  /\ Nodes < MaxNodes
  /\ \E s \in Slots, kind \in LeafKinds :
    \E p \in ParamsOf(kind, P) :
      /\ pool[s] = Empty
      /\ \A s2 \in 1..(s - 1) : pool[s2] # Empty
      /\ pool' = [pool EXCEPT ![s] = NewLeaf(kind, p)]
      /\ lastOp' = NewOp(kind, p, <<>>, NewLeaf(kind, p), "ok")
      /\ UNCHANGED thr

\* let v = K::new(v) or K::new(p, v) for a one-child struct K: the root of v is
\* moved into the new node
ConstructUnary(P) ==
  /\ ~Halted
  /\ Nodes < MaxNodes
  /\ \E s \in Slots, kind \in UnaryKinds :
    \E p \in ParamsOf(kind, P) :
      /\ pool[s] # Empty
      /\ ~Borrowed(s)
      /\ UnaryTypeChecks(pool[s])
      /\ CtorAssert(kind, p)
      /\ pool' = [pool EXCEPT ![s] = NewUnary(kind, p, pool[s])]
      /\ lastOp' = NewOp(kind, p, <<pool[s]>>, NewUnary(kind, p, pool[s]), "ok")
      /\ UNCHANGED thr

\* a constructor whose assertion fails: the panic drops the argument moved into
\* the call, no node is returned, and the process ends
ConstructPanics(P) ==
  /\ ~Halted
  /\ Nodes < MaxNodes
  /\ \E s \in Slots, kind \in UnaryKinds :
    \E p \in ParamsOf(kind, P) :
      /\ pool[s] # Empty
      /\ ~Borrowed(s)
      /\ UnaryTypeChecks(pool[s])
      /\ ~CtorAssert(kind, p)
      /\ pool' = [pool EXCEPT ![s] = Empty]
      /\ lastOp' = NewOp(kind, p, <<pool[s]>>, Empty, "panic")
      /\ UNCHANGED thr

\* let v = FuncSum::new(vi, vj) | FuncProd::new(vi, vj): both roots are moved
ConstructBinary ==
  /\ ~Halted
  /\ Nodes < MaxNodes
  /\ \E i \in Slots, j \in Slots, kind \in BinaryKinds :
    /\ i # j
    /\ pool[i] # Empty /\ pool[j] # Empty
    /\ ~Borrowed(i) /\ ~Borrowed(j)
    /\ BinaryTypeChecks(pool[i], pool[j])
    /\ pool' = [pool EXCEPT ![Min(i, j)] = NewBinary(kind, pool[i], pool[j]),
                            ![Max(i, j)] = Empty]
    /\ lastOp' = NewOp(kind, NoParam, <<pool[i], pool[j]>>,
                       NewBinary(kind, pool[i], pool[j]), "ok")
    /\ UNCHANGED thr

\* a one-child constructor call the compiler rejects (the child's type does not
\* implement FuncEval): there is no such program, nothing is built
RejectUnary(P) ==
  /\ ~Halted
  /\ \E s \in Slots, kind \in UnaryKinds :
    \E p \in ParamsOf(kind, P) :
      /\ pool[s] # Empty
      /\ ~UnaryTypeChecks(pool[s])
      /\ lastOp' = NewOp(kind, p, <<pool[s]>>, Empty, "rejected")
      /\ UNCHANGED <<pool, thr>>

\* a two-children constructor call the compiler rejects (a child's type does not
\* implement FuncEval, or the two children have different types)
RejectBinary ==
  /\ ~Halted
  /\ \E i \in Slots, j \in Slots, kind \in BinaryKinds :
    /\ i # j
    /\ pool[i] # Empty /\ pool[j] # Empty
    /\ ~BinaryTypeChecks(pool[i], pool[j])
    /\ lastOp' = NewOp(kind, NoParam, <<pool[i], pool[j]>>, Empty, "rejected")
    /\ UNCHANGED <<pool, thr>>

\* v.eval(x) on the main thread
CallEval ==
  /\ ~Halted
  /\ \E s \in Slots, x \in Inputs :
    /\ ImplFuncEval(pool[s])
    /\ lastOp' = EvalOp(pool[s], x, Eval(pool[s], x), "ok")
    /\ UNCHANGED <<pool, thr>>

\* v.eval(x) the compiler rejects: the type of v has no method eval
RejectEval ==
  /\ ~Halted
  /\ \E s \in Slots, x \in Inputs :
    /\ pool[s] # Empty
    /\ ~ImplFuncEval(pool[s])
    /\ lastOp' = EvalOp(pool[s], x, NoParam, "rejected")
    /\ UNCHANGED <<pool, thr>>

----------------------------------------------------------------------------
(***************************************************************************)
(* eval step by step, on threads that share a root by reference.  A frame  *)
(* is one activation of eval: the node it runs on (the child indices from  *)
(* the root) and the results of the child evaluations it has made.         *)
(***************************************************************************)
Frame(path, got) == [path |-> path, got |-> got]

\* an eval that caches its result in the scalar field of the node
SelfAfterEvalCached(self, x, v) == [self EXCEPT !.p = v]

\* the node after an eval call on it has returned v: eval takes &self and no
\* impl assigns a field, so the node is as it was
SelfAfterEval(self, x, v) == self

\* n with the node at path replaced by m
RECURSIVE ReplaceAt(_, _, _)
ReplaceAt(n, path, m) ==
  IF path = <<>> THEN m
  ELSE [n EXCEPT !.kids[Head(path)] = ReplaceAt(n.kids[Head(path)], Tail(path), m)]

Top(t) == thr[t].stack[Len(thr[t].stack)]
\* the node the top activation of thread t runs on, read through the shared
\* reference
TopNode(t) == NodeAt(pool[thr[t].slot], Top(t).path)

\* thread t calls v.eval(x) on the root of variable s
ThreadCall(X) ==
  /\ ~Halted
  /\ \E t \in Threads, s \in Slots, x \in X :
      /\ thr[t].status = "idle"
      /\ ImplFuncEval(pool[s])
      /\ thr' = [thr EXCEPT ![t] =
                   [status |-> "running", slot |-> s, x |-> x, self |-> pool[s],
                    stack |-> <<Frame(<<>>, <<>>)>>, r |-> NoParam, steps |-> 0]]
      /\ UNCHANGED <<pool, lastOp>>

\* the top activation of thread t calls eval on its next child
Descend(t) ==
  /\ thr[t].status = "running"
  /\ Len(Top(t).got) < NumCalls(TopNode(t))
  /\ thr' = [thr EXCEPT
               ![t].stack = Append(@, Frame(Append(Top(t).path, Len(Top(t).got) + 1), <<>>)),
               ![t].steps = @ + 1]
  /\ UNCHANGED <<pool, lastOp>>

ThreadDescend == ~Halted /\ \E t \in Threads : Descend(t)

\* the top activation of thread t has its children's results: it applies its
\* transform and returns, to the activation that called it or to the thread
Return(t) ==
  LET top == Top(t)
      node == TopNode(t)
      v == Transform(node, thr[t].x, top.got)
      depth == Len(thr[t].stack)
  IN /\ thr[t].status = "running"
     /\ Len(top.got) = NumCalls(node)
     /\ pool' = [pool EXCEPT ![thr[t].slot] =
                   ReplaceAt(@, top.path, SelfAfterEval(node, thr[t].x, v))]
     /\ thr' = IF depth = 1
               THEN [thr EXCEPT ![t].status = "done", ![t].stack = <<>>,
                                ![t].r = v, ![t].steps = @ + 1]
               ELSE [thr EXCEPT
                       ![t].stack = [k \in 1..(depth - 1) |->
                                       IF k = depth - 1
                                       THEN Frame(@[k].path, Append(@[k].got, v))
                                       ELSE @[k]],
                       ![t].steps = @ + 1]
     /\ UNCHANGED lastOp

ThreadReturn == ~Halted /\ \E t \in Threads : Return(t)

\* thread t is joined: its result has been taken and its reference is gone
ThreadJoin ==
  /\ ~Halted
  /\ \E t \in Threads :
      /\ thr[t].status = "done"
      /\ thr' = [thr EXCEPT ![t] = Idle]
      /\ UNCHANGED <<pool, lastOp>>

Next ==
  \/ ConstructLeaf(ParamValues)
  \/ ConstructUnary(ParamValues)
  \/ ConstructPanics(ParamValues)
  \/ ConstructBinary
  \/ RejectUnary(ParamValues)
  \/ RejectBinary
  \/ CallEval
  \/ RejectEval

Spec == Init /\ [][Next]_vars

\* the programs that evaluate on several threads
ConcNext ==
  \/ ConstructLeaf(ConcParams)
  \/ ConstructUnary(ConcParams)
  \/ ConstructBinary
  \/ ThreadCall(ConcInputs)
  \/ ThreadDescend
  \/ ThreadReturn
  \/ ThreadJoin

ConcSpec == Init /\ [][ConcNext]_vars

----------------------------------------------------------------------------
(***************************************************************************)
(* Properties.                                                             *)
(***************************************************************************)
\* the last call of the main thread was an eval that compiled and returned
Evaluated == lastOp.op = "eval" /\ lastOp.outcome = "ok"

\* the nodes of the tree rooted at n
RECURSIVE Subnodes(_)
Subnodes(n) ==
  {n} \cup UNION {Subnodes(n.kids[i]) : i \in 1..Len(n.kids)}

\* the well-formed f64 values
IsF64(v) == v[1] \in {"fin", "nzero", "inf", "nan", "sym"}

\* a within floating-point tolerance of b, for the values compared here: the same
\* value, or the libm round trip ln(e^b) of b
Close(a, b) == a = b \/ a = Ln(Powf(E, b))

\* the function a trigonometric struct is named after
NamedTrig(kind, v) ==
  CASE kind = "FuncSin" -> Sin(v)
    [] kind = "FuncCos" -> Cos(v)
    [] kind = "FuncTan" -> Tan(v)
    [] kind = "FuncAsin" -> Asin(v)
    [] kind = "FuncAcos" -> Acos(v)
    [] kind = "FuncAtan" -> Atan(v)

\* C1: for every child f and input x, ExpNatural(f).eval(x) is Euler's constant
\* raised to f.eval(x), the child's result, not to the raw input x.
ExpEAppliesToChild ==
  (Evaluated /\ lastOp.kind = "FuncExpE")
    => lastOp.r = Powf(E, Eval(lastOp.self.kids[1], lastOp.x))

\* C2: constructing NthRoot(n, f) with n equal to zero fails for every child f:
\* the constructor aborts and returns no node, and no NthRoot node that exists
\* has degree zero.
NthrtZeroFails ==
  /\ (lastOp.op = "new" /\ lastOp.kind = "FuncNthrt" /\ FEq(lastOp.p, Zero))
       => /\ lastOp.outcome # "ok"
          /\ lastOp.self = Empty
          /\ UnaryTypeChecks(lastOp.args[1]) => lastOp.outcome = "panic"
  /\ \A s \in Slots : \A n \in Subnodes(pool[s]) :
       n.kind = "FuncNthrt" => FNe(n.p, Zero)

\* an NthRoot construction with degree -0.0 has panicked and left no node
NthrtZeroFailsWitness ==
  /\ lastOp.op = "new" /\ lastOp.kind = "FuncNthrt" /\ lastOp.p = NZero
  /\ lastOp.outcome = "panic"
  /\ \A s \in Slots : pool[s] = Empty

\* C3: for all children f, g and inputs x, Sum(f,g).eval(x) is f.eval(x) + g.eval(x)
\* and Product(f,g).eval(x) is f.eval(x) * g.eval(x), both children evaluated at
\* the same x.
SumProdPointwise ==
  /\ (Evaluated /\ lastOp.kind = "FuncSum")
       => lastOp.r = Add(Eval(lastOp.self.kids[1], lastOp.x),
                         Eval(lastOp.self.kids[2], lastOp.x))
  /\ (Evaluated /\ lastOp.kind = "FuncProd")
       => lastOp.r = Mul(Eval(lastOp.self.kids[1], lastOp.x),
                         Eval(lastOp.self.kids[2], lastOp.x))

\* Sum(Constant(2), Constant(-1)) has been evaluated to 1
SumProdPointwiseWitness ==
  /\ Evaluated
  /\ lastOp.self = NewSum(NewConst(FInt(2)), NewConst(FInt(-1)))
  /\ lastOp.r = One

\* C4: each of the six trigonometric structs is evaluable, and its eval returns
\* the named function of f.eval(x); in particular ArcCosine(f).eval(x) is defined
\* and is acos(f.eval(x)).
TrigEvaluable ==
  (lastOp.op = "eval" /\ lastOp.kind \in TrigKinds)
    => /\ lastOp.outcome = "ok"
       /\ lastOp.r = NamedTrig(lastOp.kind, Eval(lastOp.self.kids[1], lastOp.x))

\* C5: Sum and Product accept any two evaluable nodes as children, of the same
\* struct or not.
BinaryAcceptsAny ==
  (/\ lastOp.op = "new" /\ lastOp.kind \in BinaryKinds
   /\ ImplFuncEval(lastOp.args[1]) /\ ImplFuncEval(lastOp.args[2]))
    => lastOp.outcome = "ok"

\* C6: for every nonzero degree n, child f and input x, NthRoot(n, f).eval(x) is
\* exactly Power(f, 1/n).eval(x).
NthrtIsPowRecip ==
  (Evaluated /\ lastOp.kind = "FuncNthrt")
    => lastOp.r = Eval(NewPow(lastOp.self.kids[1], Div(One, lastOp.p)), lastOp.x)

\* NthRoot(2, Identity) has been evaluated at 4 to 2
NthrtIsPowRecipWitness ==
  /\ Evaluated
  /\ lastOp.self = NewNthrt(FInt(2), NewIdem)
  /\ lastOp.x = FInt(4)
  /\ lastOp.r = FInt(2)

\* C7: round trip: where f.eval(x) is finite, LogNatural(ExpNatural(f)).eval(x)
\* is f.eval(x) within tolerance.
LnExpRoundTrip ==
  (/\ Evaluated /\ lastOp.kind = "FuncLogE"
   /\ lastOp.self.kids[1].kind = "FuncExpE"
   /\ IsNum(Eval(lastOp.self.kids[1].kids[1], lastOp.x)))
    => Close(lastOp.r, Eval(lastOp.self.kids[1].kids[1], lastOp.x))

\* C8: the nonzero degree of NthRoot is the only check a constructor makes:
\* every other constructor succeeds whatever its scalar, and NthRoot succeeds
\* for every nonzero degree.
OnlyNthrtChecks ==
  (lastOp.op = "new" /\ lastOp.outcome # "rejected")
    => (lastOp.outcome = "ok"
          <=> ~(lastOp.kind = "FuncNthrt" /\ FEq(lastOp.p, Zero)))

\* a logarithm of base 1 has been constructed
OnlyNthrtChecksWitness ==
  /\ lastOp.op = "new" /\ lastOp.outcome = "ok"
  /\ lastOp.self = NewLogA(One, NewConst(NZero))

\* C9: evaluation is read-only and interference-free: however the eval calls of
\* the threads interleave, the tree they share is as it was when they called,
\* and each call returns what it returns when run alone on that tree.
EvalReadOnly ==
  \A t \in Threads :
    /\ thr[t].status # "idle" => pool[thr[t].slot] = thr[t].self
    /\ thr[t].status = "done" => thr[t].r = Eval(thr[t].self, thr[t].x)

\* one thread has returned from a three-node tree that another thread, called
\* with another argument, is still two activations deep in
EvalReadOnlyWitness ==
  /\ thr[1].status = "done" /\ thr[2].status = "running"
  /\ thr[1].slot = thr[2].slot /\ thr[1].x # thr[2].x
  /\ Size(thr[1].self) = 3 /\ Len(thr[2].stack) >= 2
  /\ Len(thr[2].stack[1].got) = 1

\* C10: evaluation is total: every eval call goes on stepping while it has not
\* returned, returns within 2 * size - 1 steps, and returns an f64 (NaN and the
\* infinities included); it never aborts, even on an out-of-domain child result.
EvalTotal ==
  \A t \in Threads :
    /\ thr[t].status = "running"
         => /\ ENABLED (Descend(t) \/ Return(t))
            /\ thr[t].steps <= 2 * Size(thr[t].self) - 2
    /\ thr[t].status = "done"
         => /\ IsF64(thr[t].r)
            /\ thr[t].steps <= 2 * Size(thr[t].self) - 1

\* SquareRoot(Constant(-1)) has returned NaN
EvalTotalWitness ==
  \E t \in Threads :
    /\ thr[t].status = "done"
    /\ thr[t].self = NewSqrt(NewConst(FInt(-1)))
    /\ thr[t].r = NaN
=============================================================================
